---- MODULE Spec2Model ----
(***************************************************************************)
(* Trade ledger, position engine and account model of the AI trading       *)
(* assistant.                                                              *)
(*                                                                         *)
(* Units: prices and balances are integers in cents; share counts are      *)
(* integers in the sizing functions and exact dyadic fractions [num, den]  *)
(* in the ledger (a partial exit halves a float); a profit_loss is a price *)
(* difference times a size, a fraction of cents; a percentage that is a    *)
(* quotient is kept as an unreduced fraction [num, den] and compared by    *)
(* cross multiplication.                                                   *)
(* A nullable CSV cell is <<>> (None / NaN) or <<v>>.                      *)
(***************************************************************************)
EXTENDS Integers, Sequences, FiniteSets, TLC

VARIABLES
    ledger,          \* PerformanceTracker: the rows of trades.csv, in file order
    metrics,         \* PerformanceTracker: the content of metrics.json
    open_positions,  \* PositionManager.open_positions (symbol -> in-memory position)
    account,         \* AccountManager.metrics
    task,            \* TradingSystem.run: one analyze_symbol task per symbol
    active_trades,   \* TradingSystem.active_trades (set of symbols)
    sizing,          \* the last call into the account model: its inputs and its result
    broker,          \* BrokerManager: its clients, broker_type and the last order call
    applied,         \* the last oracle answer applied to a position, and the file before it
    llm              \* TradingAnalyst._generate_llm_response: the call in progress

vars == <<ledger, metrics, open_positions, account, task, active_trades, sizing, broker,
          applied, llm>>

----------------------------------------------------------------------------
(* Optional values and small helpers *)

None == <<>>

Some(v) == <<v>>

IsSome(o) == Len(o) = 1

Val(o) == o[1]

Get(d, k, default) == IF k \in DOMAIN d THEN d[k] ELSE default

Abs(x) == IF x < 0 THEN -x ELSE x

Min2(a, b) == IF a <= b THEN a ELSE b

Max2(a, b) == IF a >= b THEN a ELSE b

MaxOf(S) == CHOOSE x \in S : \A y \in S : y <= x

MinOf(S) == CHOOSE x \in S : \A y \in S : x <= y

\* A float that arises by halving an integer: the exact fraction num / den, den a
\* power of two, kept in lowest terms
RECURSIVE Norm(_)
Norm(q) ==
    IF q.den > 1 /\ q.num % 2 = 0
    THEN Norm([num |-> q.num \div 2, den |-> q.den \div 2])
    ELSE q

Q(n) == [num |-> n, den |-> 1]

QHalf(q) == Norm([num |-> q.num, den |-> q.den * 2])

QSub(a, b) == Norm([num |-> a.num * b.den - b.num * a.den, den |-> a.den * b.den])

QAdd(a, b) == Norm([num |-> a.num * b.den + b.num * a.den, den |-> a.den * b.den])

\* the integer k times the fraction q
QTimes(k, q) == Norm([num |-> k * q.num, den |-> q.den])

\* Python's int(a / b) for a >= 0, b > 0
IntDiv(a, b) == a \div b

\* Python's round(n / d) for n >= 0, d > 0: to the nearest integer, a tie to the even one
PyRound(n, d) ==
    LET q == n \div d
        r == n % d
    IN  IF 2 * r < d THEN q
        ELSE IF 2 * r > d THEN q + 1
        ELSE IF q % 2 = 0 THEN q ELSE q + 1

----------------------------------------------------------------------------
(* Bounds of the model *)

\* the ledger holds at most this many rows
MaxLedger == 2

----------------------------------------------------------------------------
(* Program constants *)

\* performance_tracker.py: 'position_size': trade_data.get('size', 100)
DefaultSize == 100

\* account_manager.py: starting_balance default 3000.00 (in cents)
default_starting_balance == 300000

\* position_sizing.risk_per_trade_percent default 1.0
risk_per_trade_percent == 1

\* position_sizing.min_position_percent default 3.0
min_position_percent == 3

\* position_sizing.max_position_percent default 20.0
max_position_percent == 20

\* risk_management.max_account_risk default 50.0
max_account_risk == 50

\* limits.max_daily_loss_percent default 3.0
max_daily_loss_percent == 3

\* risk_management.cash_reserve_percent default 10.0
cash_reserve_percent == 10

\* position_sizing.preferred_share_increment default 5
preferred_share_increment == 5

Symbols == {"AAPL", "MSFT"}

----------------------------------------------------------------------------
(* Ledger Store: PerformanceTracker *)

\* the columns of trades.csv the engine reads or writes
Columns ==
    {"symbol", "entry_price", "target_price", "stop_price", "position_size",
     "status", "exit_price", "exit_time", "profit_loss", "profit_loss_percent"}

\* a percentage (a / b - 1) * 100 as the fraction (a - b) * 100 / b
Pct(a, b) == [num |-> (a - b) * 100, den |-> b]

PctEq(p, q) == p.num * q.den = q.num * p.den

\* _init_log_files / reset_statistics: the initial metrics.json
initial_metrics == [total_trades |-> 0, winning_trades |-> 0, losing_trades |-> 0]

\* _update_metrics with total_trades counting the closed trades only
_update_metrics_closed_only(df) ==
    LET closed  == {i \in 1..Len(df) : df[i].status = "CLOSED"}
        winners == {i \in closed : IsSome(df[i].profit_loss) /\ Val(df[i].profit_loss).num > 0}
        losers  == {i \in closed : IsSome(df[i].profit_loss) /\ Val(df[i].profit_loss).num < 0}
    IN  [total_trades   |-> Cardinality(closed),
         winning_trades |-> Cardinality(winners),
         losing_trades  |-> Cardinality(losers)]

\* _update_metrics reading the file as it was before the last row was appended
_update_metrics_before_append(df) ==
    LET old     == IF Len(df) = 0 THEN df ELSE SubSeq(df, 1, Len(df) - 1)
        closed  == {i \in 1..Len(old) : old[i].status = "CLOSED"}
        winners == {i \in closed : IsSome(old[i].profit_loss) /\ Val(old[i].profit_loss).num > 0}
        losers  == {i \in closed : IsSome(old[i].profit_loss) /\ Val(old[i].profit_loss).num < 0}
    IN  [total_trades   |-> Len(old),
         winning_trades |-> Cardinality(winners),
         losing_trades  |-> Cardinality(losers)]

\* _update_metrics: the snapshot recomputed from the whole file
_update_metrics(df) ==
    LET closed  == {i \in 1..Len(df) : df[i].status = "CLOSED"}
        winners == {i \in closed : IsSome(df[i].profit_loss) /\ Val(df[i].profit_loss).num > 0}
        losers  == {i \in closed : IsSome(df[i].profit_loss) /\ Val(df[i].profit_loss).num < 0}
    IN  [total_trades   |-> Len(df),
         winning_trades |-> Cardinality(winners),
         losing_trades  |-> Cardinality(losers)]

\* get_open_positions: the rows whose status is OPEN, in file order
get_open_positions(df) == SelectSeq(df, LAMBDA r : r.status = "OPEN")

\* log_trade, lines 65-68: the required-field validation
log_trade_valid(trade_data) ==
    /\ "symbol" \in DOMAIN trade_data
    /\ "entry_price" \in DOMAIN trade_data

\* log_trade, lines 77-97: the row built from trade_data
log_trade_row(trade_data) ==
    [symbol              |-> trade_data.symbol,
     entry_price         |-> trade_data.entry_price,
     target_price        |-> Get(trade_data, "target_price", None),
     stop_price          |-> Get(trade_data, "stop_price", None),
     position_size       |-> Get(trade_data, "size", Q(DefaultSize)),
     status              |-> Get(trade_data, "status", "OPEN"),
     exit_price          |-> None,
     exit_time           |-> None,
     profit_loss         |-> None,
     profit_loss_percent |-> None]

\* log_trade writing a file that holds the new row only
log_trade_overwriting(df, trade_data) ==
    IF log_trade_valid(trade_data)
    THEN [ok |-> TRUE, df |-> <<log_trade_row(trade_data)>>]
    ELSE [ok |-> FALSE, df |-> df]

\* log_trade: the file after the call and the value returned
log_trade(df, trade_data) ==
    IF ~log_trade_valid(trade_data)
    THEN [ok |-> FALSE, df |-> df]
    ELSE [ok |-> TRUE, df |-> Append(df, log_trade_row(trade_data))]

\* the rows update_trade would pick from if it did not look at the status
open_trade_rows_any_status(df, symbol) ==
    {i \in 1..Len(df) : df[i].symbol = symbol}

\* update_trade, lines 119-126: the most recent OPEN row of the symbol
open_trade_rows(df, symbol) ==
    {i \in 1..Len(df) : df[i].symbol = symbol /\ df[i].status = "OPEN"}

\* update_trade_close where the store keeps the profit_loss figures the caller sent
update_trade_close_trusting(row, updates) ==
    LET exit_price == Val(updates.exit_price)
    IN  [row EXCEPT
            !.profit_loss = Get(updates, "profit_loss",
                                Some(QTimes(exit_price - row.entry_price,
                                            row.position_size))),
            !.profit_loss_percent = Get(updates, "profit_loss_percent",
                                        Some(Pct(exit_price, row.entry_price))),
            !.exit_time = Get(updates, "exit_time", Some("now"))]

\* update_trade, lines 132-143: the exit fields the store computes on a close
update_trade_close(row, updates) ==
    LET exit_price == Val(updates.exit_price)
    IN  [row EXCEPT
            !.profit_loss = Some(QTimes(exit_price - row.entry_price, row.position_size)),
            !.profit_loss_percent = Some(Pct(exit_price, row.entry_price)),
            !.exit_time = Get(updates, "exit_time", Some("now"))]

\* update_trade patching the first OPEN row of the symbol instead of the last
update_trade_first_open(df, symbol, updates) ==
    IF open_trade_rows(df, symbol) = {}
    THEN [ok |-> FALSE, df |-> df]
    ELSE LET trade_idx == MinOf(open_trade_rows(df, symbol))
             patched   == [k \in Columns |->
                              IF k \in DOMAIN updates THEN updates[k]
                              ELSE df[trade_idx][k]]
             closing   == /\ Get(updates, "status", "") = "CLOSED"
                          /\ "exit_price" \in DOMAIN updates
         IN  IF closing /\ patched.entry_price = 0
             THEN [ok |-> FALSE, df |-> df]
             ELSE [ok |-> TRUE,
                   df |-> [df EXCEPT ![trade_idx] =
                              IF closing THEN update_trade_close(patched, updates)
                              ELSE patched]]

\* update_trade saving only the rows of the symbol it was called for
update_trade_dropping_others(df, symbol, updates) ==
    IF open_trade_rows(df, symbol) = {}
    THEN [ok |-> FALSE, df |-> df]
    ELSE LET trade_idx == MaxOf(open_trade_rows(df, symbol))
             patched   == [k \in Columns |->
                              IF k \in DOMAIN updates THEN updates[k]
                              ELSE df[trade_idx][k]]
             closing   == /\ Get(updates, "status", "") = "CLOSED"
                          /\ "exit_price" \in DOMAIN updates
             saved     == [df EXCEPT ![trade_idx] =
                              IF closing THEN update_trade_close(patched, updates)
                              ELSE patched]
         IN  IF closing /\ patched.entry_price = 0
             THEN [ok |-> FALSE, df |-> df]
             ELSE [ok |-> TRUE,
                   df |-> SelectSeq(saved, LAMBDA r : r.symbol = symbol)]

\* update_trade: the file after the call and the value returned
update_trade(df, symbol, updates) ==
    IF open_trade_rows(df, symbol) = {}
    THEN [ok |-> FALSE, df |-> df]
    ELSE LET trade_idx == MaxOf(open_trade_rows(df, symbol))
             patched   == [k \in Columns |->
                              IF k \in DOMAIN updates THEN updates[k]
                              ELSE df[trade_idx][k]]
             closing   == /\ Get(updates, "status", "") = "CLOSED"
                          /\ "exit_price" \in DOMAIN updates
         IN  IF closing /\ patched.entry_price = 0
             THEN [ok |-> FALSE, df |-> df]   \* ZeroDivisionError, nothing saved
             ELSE [ok |-> TRUE,
                   df |-> [df EXCEPT ![trade_idx] =
                              IF closing THEN update_trade_close(patched, updates)
                              ELSE patched]]

----------------------------------------------------------------------------
(* Account Model: AccountManager, BrokerManager, PositionManager sizing *)

\* AccountManager._initialize_account, paper trading
initial_account ==
    [starting_balance      |-> default_starting_balance,
     current_balance       |-> default_starting_balance,
     buying_power          |-> default_starting_balance,
     cash_reserve          |-> (default_starting_balance * cash_reserve_percent) \div 100,
     total_positions_value |-> 0,
     unrealized_pl         |-> 0,
     realized_pl           |-> 0,
     high_water_mark       |-> default_starting_balance]

\* AccountManager.calculate_position_size rounding before it clamps
AccountManager_calculate_position_size_round_first(acct, entry_price, stop_price) ==
    LET balance        == acct.current_balance
        risk_per_share == Abs(entry_price - stop_price)
    IN  IF risk_per_share = 0
        THEN [error |-> "Invalid risk per share"]
        ELSE IF entry_price = 0 \/ balance = 0
        THEN [error |-> "division by zero"]
        ELSE
        LET shares0  == IntDiv(balance * risk_per_trade_percent, 100 * risk_per_share)
            shares1  == PyRound(shares0, preferred_share_increment)
                            * preferred_share_increment
            value100 == shares1 * entry_price * 100
            min100   == balance * min_position_percent
            max100   == Min2(balance * max_position_percent, acct.buying_power * 100)
            shares   == IF value100 < min100 THEN IntDiv(min100, 100 * entry_price)
                        ELSE IF value100 > max100 THEN IntDiv(max100, 100 * entry_price)
                        ELSE shares1
        IN  [shares           |-> shares,
             position_value   |-> shares * entry_price,
             risk_amount      |-> shares * risk_per_share,
             risk_percent     |-> [num |-> shares * risk_per_share * 100, den |-> balance],
             position_percent |-> [num |-> shares * entry_price * 100, den |-> balance]]

\* AccountManager.calculate_position_size
AccountManager_calculate_position_size(acct, entry_price, stop_price) ==
    LET balance        == acct.current_balance
        risk_per_share == Abs(entry_price - stop_price)
    IN  IF risk_per_share = 0
        THEN [error |-> "Invalid risk per share"]
        ELSE IF entry_price = 0 \/ balance = 0
        THEN [error |-> "division by zero"]
        ELSE
        LET shares0  == IntDiv(balance * risk_per_trade_percent, 100 * risk_per_share)
            \* position_value, min_position and max_position, all times 100
            value100 == shares0 * entry_price * 100
            min100   == balance * min_position_percent
            max100   == Min2(balance * max_position_percent, acct.buying_power * 100)
            shares1  == IF value100 < min100 THEN IntDiv(min100, 100 * entry_price)
                        ELSE IF value100 > max100 THEN IntDiv(max100, 100 * entry_price)
                        ELSE shares0
            shares   == PyRound(shares1, preferred_share_increment)
                            * preferred_share_increment
        IN  [shares           |-> shares,
             position_value   |-> shares * entry_price,
             risk_amount      |-> shares * risk_per_share,
             risk_percent     |-> [num |-> shares * risk_per_share * 100, den |-> balance],
             position_percent |-> [num |-> shares * entry_price * 100, den |-> balance]]

\* BrokerManager.calculate_position_size: the same computation over its own metrics
BrokerManager_calculate_position_size(acct, entry_price, stop_price) ==
    LET balance        == acct.current_balance
        risk_per_share == Abs(entry_price - stop_price)
    IN  IF risk_per_share = 0
        THEN [error |-> "Invalid risk per share"]
        ELSE IF entry_price = 0 \/ balance = 0
        THEN [error |-> "division by zero"]
        ELSE
        LET shares0  == IntDiv(balance * risk_per_trade_percent, 100 * risk_per_share)
            value100 == shares0 * entry_price * 100
            min100   == balance * min_position_percent
            max100   == Min2(balance * max_position_percent, acct.buying_power * 100)
            shares1  == IF value100 < min100 THEN IntDiv(min100, 100 * entry_price)
                        ELSE IF value100 > max100 THEN IntDiv(max100, 100 * entry_price)
                        ELSE shares0
            shares   == PyRound(shares1, preferred_share_increment)
                            * preferred_share_increment
        IN  [shares           |-> shares,
             position_value   |-> shares * entry_price,
             risk_amount      |-> shares * risk_per_share,
             risk_percent     |-> [num |-> shares * risk_per_share * 100, den |-> balance],
             position_percent |-> [num |-> shares * entry_price * 100, den |-> balance]]

\* PositionManager.calculate_position_size answering a zero risk per share with
\* a size of no shares
PositionManager_calculate_position_size_zero_shares(acct, entry_price, stop_price) ==
    LET account_value  == acct.current_balance
        risk_per_share == Abs(entry_price - stop_price)
    IN  IF risk_per_share = 0 \/ entry_price = 0 \/ account_value = 0
        THEN [shares |-> 0, position_value |-> 0, risk_amount |-> 0,
              risk_percent |-> [num |-> 0, den |-> 1]]
        ELSE
        LET shares0 == IntDiv(account_value * risk_per_trade_percent, 100 * risk_per_share)
            max100  == account_value * max_position_percent
            shares  == IF shares0 * entry_price * 100 > max100
                       THEN IntDiv(max100, 100 * entry_price)
                       ELSE shares0
        IN  [shares         |-> shares,
             position_value |-> shares * entry_price,
             risk_amount    |-> shares * risk_per_share,
             risk_percent   |-> [num |-> shares * risk_per_share * 100,
                                 den |-> account_value]]

\* PositionManager.calculate_position_size: no minimum clamp, no rounding
PositionManager_calculate_position_size(acct, entry_price, stop_price) ==
    LET account_value  == acct.current_balance
        risk_per_share == Abs(entry_price - stop_price)
    IN  IF risk_per_share = 0
        THEN [error |-> "Invalid risk per share"]
        ELSE IF entry_price = 0 \/ account_value = 0
        THEN [error |-> "division by zero"]
        ELSE
        LET shares0 == IntDiv(account_value * risk_per_trade_percent, 100 * risk_per_share)
            max100  == account_value * max_position_percent
            shares  == IF shares0 * entry_price * 100 > max100
                       THEN IntDiv(max100, 100 * entry_price)
                       ELSE shares0
        IN  [shares         |-> shares,
             position_value |-> shares * entry_price,
             risk_amount    |-> shares * risk_per_share,
             risk_percent   |-> [num |-> shares * risk_per_share * 100,
                                 den |-> account_value]]

\* check_trade_allowed whose verdict leaves the cash reserve gate out
check_trade_allowed_without_reserve(acct, position_value, risk_amount) ==
    LET checks ==
          [has_buying_power      |-> position_value <= acct.buying_power,
           within_position_limit |->
               position_value * 100 <= max_position_percent * acct.current_balance,
           within_risk_limit     |->
               risk_amount * 100 <= acct.current_balance * max_account_risk,
           within_daily_loss     |->
               acct.unrealized_pl * 100 >= -max_daily_loss_percent * acct.starting_balance,
           has_cash_reserve      |->
               acct.buying_power - position_value >= acct.cash_reserve]
    IN  [allowed |-> \A k \in DOMAIN checks \ {"has_cash_reserve"} : checks[k],
         checks |-> checks]

\* AccountManager.check_trade_allowed: the five gates and their conjunction
check_trade_allowed(acct, position_value, risk_amount) ==
    LET checks ==
          [has_buying_power      |-> position_value <= acct.buying_power,
           within_position_limit |->
               position_value * 100 <= max_position_percent * acct.current_balance,
           within_risk_limit     |->
               risk_amount * 100 <= acct.current_balance * max_account_risk,
           within_daily_loss     |->
               acct.unrealized_pl * 100 >= -max_daily_loss_percent * acct.starting_balance,
           has_cash_reserve      |->
               acct.buying_power - position_value >= acct.cash_reserve]
    IN  [allowed |-> \A k \in DOMAIN checks : checks[k], checks |-> checks]

\* _initialize_account with an authenticated broker client: balance and buying
\* power come from the broker's profile
_initialize_account_live(profile) ==
    [initial_account EXCEPT
        !.current_balance = profile.equity,
        !.buying_power    = profile.buying_power,
        !.high_water_mark = profile.equity,
        !.cash_reserve    = (profile.equity * cash_reserve_percent) \div 100]

\* update_account_metrics with the mark always set to the current balance
update_high_water_mark_reset(acct) ==
    [acct EXCEPT !.high_water_mark = acct.current_balance]

\* update_account_metrics, lines 76-78
update_high_water_mark(acct) ==
    IF acct.current_balance > acct.high_water_mark
    THEN [acct EXCEPT !.high_water_mark = acct.current_balance]
    ELSE acct

\* update_account_metrics with an authenticated broker client, lines 53-56
update_account_metrics_live(acct, profile) ==
    update_high_water_mark([acct EXCEPT !.current_balance = profile.equity,
                                        !.buying_power    = profile.buying_power])

RECURSIVE SumOver(_, _, _)
\* sum(pos[field] for pos in positions.values())
SumOver(positions, keys, field) ==
    IF keys = {} THEN 0
    ELSE LET k == CHOOSE x \in keys : TRUE
         IN  positions[k][field] + SumOver(positions, keys \ {k}, field)

\* update_account_metrics for paper trading with the buying power left unclamped
update_account_metrics_paper_unclamped(acct, positions) ==
    LET positions_value == SumOver(positions, DOMAIN positions, "current_value")
        unrealized_pl   == SumOver(positions, DOMAIN positions, "unrealized_pl")
        realized_pl     == SumOver(positions, DOMAIN positions, "realized_pl")
        current_balance == acct.starting_balance + unrealized_pl + realized_pl
        total_allocated == positions_value + acct.cash_reserve
    IN  update_high_water_mark(
            [acct EXCEPT !.total_positions_value = positions_value,
                         !.unrealized_pl         = unrealized_pl,
                         !.realized_pl           = realized_pl,
                         !.current_balance       = current_balance,
                         !.buying_power          = current_balance - total_allocated])

\* update_account_metrics for paper trading, lines 58-74
update_account_metrics_paper(acct, positions) ==
    LET positions_value == SumOver(positions, DOMAIN positions, "current_value")
        unrealized_pl   == SumOver(positions, DOMAIN positions, "unrealized_pl")
        realized_pl     == SumOver(positions, DOMAIN positions, "realized_pl")
        current_balance == acct.starting_balance + unrealized_pl + realized_pl
        total_allocated == positions_value + acct.cash_reserve
    IN  update_high_water_mark(
            [acct EXCEPT !.total_positions_value = positions_value,
                         !.unrealized_pl         = unrealized_pl,
                         !.realized_pl           = realized_pl,
                         !.current_balance       = current_balance,
                         !.buying_power = Max2(0, current_balance - total_allocated)])

----------------------------------------------------------------------------
(* Position State Machine: TradingAnalyst (components/trading_analyst.py) *)

ActionKinds == {"HOLD", "EXIT", "PARTIAL_EXIT", "ADJUST_STOPS"}

NoForcedExit == [action |-> "NONE", reason |-> ""]

\* _should_force_exit with the stop compared strictly
_should_force_exit_strict_stop(current_price, position_data) ==
    IF IsSome(position_data.stop_price) /\ current_price < Val(position_data.stop_price)
    THEN [action |-> "EXIT", reason |-> "Stop loss violated"]
    ELSE IF position_data.entry_price = 0
    THEN NoForcedExit
    ELSE IF (current_price - position_data.entry_price) * 100
                < -2 * position_data.entry_price
    THEN [action |-> "EXIT", reason |-> "Large adverse move"]
    ELSE NoForcedExit

\* _should_force_exit with a loss of exactly 2% counted as a large adverse move
_should_force_exit_inclusive_loss(current_price, position_data) ==
    IF IsSome(position_data.stop_price) /\ current_price <= Val(position_data.stop_price)
    THEN [action |-> "EXIT", reason |-> "Stop loss violated"]
    ELSE IF position_data.entry_price = 0
    THEN NoForcedExit
    ELSE IF (current_price - position_data.entry_price) * 100
                <= -2 * position_data.entry_price
    THEN [action |-> "EXIT", reason |-> "Large adverse move"]
    ELSE NoForcedExit

\* _should_force_exit: the forced decision, or NoForcedExit for Python's None.
\* A stop read back as NaN compares False; entry_price 0 raises and yields None.
_should_force_exit(current_price, position_data) ==
    IF IsSome(position_data.stop_price) /\ current_price <= Val(position_data.stop_price)
    THEN [action |-> "EXIT", reason |-> "Stop loss violated"]
    ELSE IF position_data.entry_price = 0
    THEN NoForcedExit
    ELSE IF (current_price - position_data.entry_price) * 100
                < -2 * position_data.entry_price
    THEN [action |-> "EXIT", reason |-> "Large adverse move"]
    ELSE NoForcedExit

\* _parse_position_action keeping whatever kind the ACTION line names
_parse_position_action_unvalidated(response) ==
    IF ~response.params.given
    THEN [action |-> response.action, params |-> None]
    ELSE IF response.action = "ADJUST_STOPS"
    THEN IF response.params.parsable
         THEN [action |-> response.action, params |-> Some(response.params.value)]
         ELSE [action |-> "HOLD", params |-> None]
    ELSE [action |-> response.action, params |-> Some(response.params.value)]

\* _parse_position_action over a response with an ACTION line and, when
\* response.params.given, a PARAMS line after it
_parse_position_action(response) ==
    LET kind == IF response.action \in ActionKinds THEN response.action ELSE "HOLD"
    IN  IF ~response.params.given
        THEN [action |-> kind, params |-> None]
        ELSE IF kind = "ADJUST_STOPS"
        THEN IF response.params.parsable
             THEN [action |-> kind, params |-> Some(response.params.value)]
             ELSE [action |-> "HOLD", params |-> None]
        ELSE [action |-> kind, params |-> Some(response.params.value)]

\* the HOLD override with the loss rule only
hold_override_loss_only(action, current_price, position_data) ==
    LET entry_price   == position_data.entry_price
        has_stop      == IsSome(position_data.stop_price)
        stop_price    == IF has_stop THEN Val(position_data.stop_price) ELSE 0
        stop_distance == Abs(entry_price - stop_price)
    IN  IF action.action # "HOLD" THEN action
        ELSE IF has_stop /\ stop_distance = 0
        THEN [action |-> "ERROR", params |-> None]
        ELSE IF (current_price - entry_price) * 200 < -3 * entry_price
        THEN [action |-> "EXIT", params |-> None]
        ELSE action

\* analyze_position, lines 98-117: a parsed HOLD is upgraded to EXIT near the stop
\* or when down more than 1.5%; "ERROR" stands for the ZeroDivisionError raised
\* when entry_price = stop_price
hold_override(action, current_price, position_data) ==
    LET entry_price   == position_data.entry_price
        has_stop      == IsSome(position_data.stop_price)
        stop_price    == IF has_stop THEN Val(position_data.stop_price) ELSE 0
        stop_distance == Abs(entry_price - stop_price)
    IN  IF action.action # "HOLD" THEN action
        ELSE IF has_stop /\ stop_distance = 0
        THEN [action |-> "ERROR", params |-> None]
        ELSE IF has_stop /\ (current_price - stop_price) * 10 < stop_distance
        THEN [action |-> "EXIT", params |-> None]
        ELSE IF (current_price - entry_price) * 200 < -3 * entry_price
        THEN [action |-> "EXIT", params |-> None]
        ELSE action

----------------------------------------------------------------------------
(* Position State Machine: PositionManager (components/position_manager.py) *)

\* _handle_exit: the patch sent to update_trade, its P&L computed by the caller
\* from the position it was handed
exit_data(current_price, position) ==
    [status              |-> "CLOSED",
     exit_price          |-> Some(current_price),
     exit_time           |-> Some("now"),
     profit_loss         |-> Some(QTimes(current_price - position.entry_price,
                                         position.size)),
     profit_loss_percent |-> Some(Pct(current_price, position.entry_price))]

\* _handle_exit closing at the entry price instead of the market price
_handle_exit_at_entry(df, symbol, current_price, position) ==
    IF position.entry_price = 0 THEN [df |-> df, wrote |-> FALSE]
    ELSE LET updated == update_trade(df, symbol,
                                     exit_data(position.entry_price, position))
         IN  [df |-> updated.df, wrote |-> updated.ok]

\* _handle_exit: the file after the call; wrote tells whether the store saved
_handle_exit(df, symbol, current_price, position) ==
    IF position.entry_price = 0 THEN [df |-> df, wrote |-> FALSE]
    ELSE LET updated == update_trade(df, symbol, exit_data(current_price, position))
         IN  [df |-> updated.df, wrote |-> updated.ok]

\* _handle_partial_exit, lines 149-159: the record of the exited half
exit_trade(symbol, current_price, position) ==
    LET exit_size == QHalf(position.size)
    IN  [symbol              |-> symbol,
         entry_price         |-> position.entry_price,
         exit_price          |-> Some(current_price),
         position_size       |-> exit_size,
         status              |-> "CLOSED",
         exit_time           |-> Some("now"),
         profit_loss         |-> Some(QTimes(current_price - position.entry_price,
                                             exit_size)),
         profit_loss_percent |-> Some(Pct(current_price, position.entry_price))]

\* _handle_partial_exit: log the exited half, then shrink the open record
_handle_partial_exit(df, symbol, current_price, position) ==
    IF position.entry_price = 0 THEN [df |-> df, wrote |-> FALSE]
    ELSE LET logged    == log_trade(df, exit_trade(symbol, current_price, position))
             remaining == QSub(position.size, QHalf(position.size))
         IN  IF logged.ok
             THEN [df    |-> update_trade(logged.df, symbol,
                                          [position_size |-> remaining]).df,
                   wrote |-> TRUE]
             ELSE [df |-> logged.df, wrote |-> FALSE]

\* _handle_stop_adjustment storing any stop below the entry, whatever the risk
_handle_stop_adjustment_without_risk_check(df, acct, symbol, position, action) ==
    IF ~IsSome(action.params) THEN [df |-> df, wrote |-> FALSE]
    ELSE LET new_stop == Val(action.params)
             updated  == update_trade(df, symbol, [stop_price |-> Some(new_stop)])
         IN  IF new_stop >= position.entry_price THEN [df |-> df, wrote |-> FALSE]
             ELSE [df |-> updated.df, wrote |-> updated.ok]

\* _handle_stop_adjustment: the new stop is stored unless the params are missing,
\* the stop is at or above the entry, or the risk at the new stop exceeds the limit
_handle_stop_adjustment(df, acct, symbol, position, action) ==
    IF ~IsSome(action.params) THEN [df |-> df, wrote |-> FALSE]
    ELSE LET new_stop == Val(action.params)
             new_risk == QTimes(position.entry_price - new_stop, position.size)
             updated  == update_trade(df, symbol, [stop_price |-> Some(new_stop)])
         IN  IF new_stop >= position.entry_price THEN [df |-> df, wrote |-> FALSE]
             ELSE IF acct.current_balance = 0 THEN [df |-> df, wrote |-> FALSE]
             ELSE IF new_risk.num * 100
                        > risk_per_trade_percent * acct.current_balance * new_risk.den
             THEN [df |-> df, wrote |-> FALSE]
             ELSE [df |-> updated.df, wrote |-> updated.ok]

\* handle_position_action whose HOLD branch closes the position
handle_position_action_hold_exits(df, acct, symbol, action, position, current_price) ==
    IF current_price = 0 THEN [df |-> df, wrote |-> FALSE]
    ELSE IF action.action \in {"EXIT", "HOLD"}
    THEN _handle_exit(df, symbol, current_price, position)
    ELSE IF action.action = "PARTIAL_EXIT"
    THEN _handle_partial_exit(df, symbol, current_price, position)
    ELSE IF action.action = "ADJUST_STOPS"
    THEN _handle_stop_adjustment(df, acct, symbol, position, action)
    ELSE [df |-> df, wrote |-> FALSE]

\* handle_position_action: the file after the action is dispatched
handle_position_action(df, acct, symbol, action, position, current_price) ==
    IF current_price = 0 THEN [df |-> df, wrote |-> FALSE]
    ELSE IF action.action = "EXIT"
    THEN _handle_exit(df, symbol, current_price, position)
    ELSE IF action.action = "PARTIAL_EXIT"
    THEN _handle_partial_exit(df, symbol, current_price, position)
    ELSE IF action.action = "ADJUST_STOPS"
    THEN _handle_stop_adjustment(df, acct, symbol, position, action)
    ELSE [df |-> df, wrote |-> FALSE]

\* analyze_position: the decision returned and the file after the call; a forced
\* exit is returned before the oracle is asked and before any action is handled
analyze_position(df, acct, symbol, current_price, position_data, response) ==
    LET force_exit == _should_force_exit(current_price, position_data)
        action     == hold_override(_parse_position_action(response),
                                    current_price, position_data)
        handled    == handle_position_action(df, acct, symbol, action,
                                             position_data, current_price)
    IN  IF force_exit.action # "NONE"
        THEN [action |-> force_exit.action, reason |-> force_exit.reason,
              forced |-> TRUE, df |-> df, wrote |-> FALSE]
        ELSE IF position_data.entry_price = 0 \/ action.action = "ERROR"
        THEN [action |-> "HOLD", reason |-> "Analysis error",
              forced |-> FALSE, df |-> df, wrote |-> FALSE]
        ELSE [action |-> action.action, reason |-> "oracle", forced |-> FALSE,
              df |-> handled.df, wrote |-> handled.wrote]

\* main.py analyze_symbol, lines 368-379: the position handed to analyze_position
\* is the first OPEN row of the symbol
position_data_of(open_df, symbol) ==
    LET row == open_df[MinOf({i \in 1..Len(open_df) : open_df[i].symbol = symbol})]
    IN  [entry_price  |-> row.entry_price,
         target_price |-> row.target_price,
         stop_price   |-> row.stop_price,
         size         |-> row.position_size]

has_open_position(open_df, symbol) ==
    \E i \in 1..Len(open_df) : open_df[i].symbol = symbol

----------------------------------------------------------------------------
(* Inputs *)

\* market prices: below the stop, at the stop, down 2.5%, down exactly 2%, up
Prices == {940, 950, 975, 980, 1050}

\* the setups the oracle proposes: entry 10.00, target 11.00, stop 9.50
Setups ==
    {[entry_price |-> 1000, target_price |-> 1100, stop_price |-> 950, size |-> n] :
        n \in {50, 100}}

\* the oracle's answers to a position prompt
NoParams == [given |-> FALSE, parsable |-> FALSE, value |-> 0]

Responses ==
    {[action |-> a, params |-> NoParams] :
        a \in {"HOLD", "EXIT", "PARTIAL_EXIT", "ADJUST_STOPS", "BUY", ""}}
    \cup {[action |-> "ADJUST_STOPS",
           params |-> [given |-> TRUE, parsable |-> TRUE, value |-> v]] :
             v \in {940, 960}}
    \cup {[action |-> "ADJUST_STOPS",
           params |-> [given |-> TRUE, parsable |-> FALSE, value |-> 0]]}

\* the records callers hand to log_trade
LogInputs ==
    {[symbol |-> s, entry_price |-> 1000, target_price |-> Some(1100),
      stop_price |-> Some(950), size |-> Q(100), status |-> "OPEN"] : s \in Symbols}
    \cup {[symbol |-> s] : s \in Symbols}
    \cup {[entry_price |-> 1000]}
    \cup {[symbol |-> "MSFT", entry_price |-> 1000, target_price |-> Some(1100),
            stop_price |-> Some(950), status |-> "OPEN"]}

\* a close that carries the caller's own, wrong, profit_loss figures
BogusClose ==
    [status |-> "CLOSED", exit_price |-> Some(1100), profit_loss |-> Some(Q(777)),
     profit_loss_percent |-> Some([num |-> 7, den |-> 1])]

\* the patches callers hand to update_trade
Patches ==
    {BogusClose, [status |-> "CLOSED"], [position_size |-> Q(50)]}

----------------------------------------------------------------------------
(* Brokers: alpaca_authenticator.py and broker_manager.py *)

\* what load_credentials finds: nothing, credentials the broker rejects,
\* or credentials the broker accepts
AlpacaCredentials == {"none", "invalid", "valid"}

\* a variant that hands out the client without testing the connection
create_trading_client_untested(creds) ==
    IF creds = "none" THEN None ELSE Some([client |-> "TradingClient"])

\* AlpacaAuthenticator.create_trading_client: None without credentials; the
\* client is returned only after client.get_account() went through, any
\* exception gives None
create_trading_client(creds) ==
    IF creds = "none" THEN None
    ELSE IF creds = "valid" THEN Some([client |-> "TradingClient"])
    ELSE None

\* the robinhood_client argument: absent, or an authenticator that is or is
\* not authenticated
RobinhoodClients ==
    {None, Some([authenticated |-> FALSE]), Some([authenticated |-> TRUE])}

\* BrokerManager._determine_broker_type
_determine_broker_type(alpaca_client, robinhood_client) ==
    IF IsSome(alpaca_client) THEN "alpaca"
    ELSE IF IsSome(robinhood_client) /\ Val(robinhood_client).authenticated
         THEN "robinhood"
    ELSE "paper"

\* BrokerManager.__init__: the clients and the broker type chosen from them
BrokerManager(creds, robinhood_client) ==
    [alpaca_credentials |-> creds,
     alpaca_client |-> create_trading_client(creds),
     robinhood_client |-> robinhood_client,
     broker_type |-> _determine_broker_type(create_trading_client(creds),
                                            robinhood_client),
     call |-> "none", order_spec |-> None, result |-> None]

\* Python's `a or b` on two optional prices
PyOr(a, b) == IF IsSome(a) /\ Val(a) # 0 THEN a ELSE b

\* BrokerManager._simulate_order; the id is "paper_" and the time of the call
_simulate_order(order_spec) ==
    Some([id |-> "paper_timestamp",
          status |-> "filled",
          filled_qty |-> order_spec.quantity,
          filled_avg_price |-> PyOr(order_spec.limit_price, order_spec.price)])

\* BrokerManager._place_alpaca_order: a limit order without limit_price raises
\* and gives None; otherwise the outcome is what submit_order answered
_place_alpaca_order(order_spec, submitted) ==
    IF order_spec.type # "market" /\ ~IsSome(order_spec.limit_price)
    THEN None
    ELSE submitted

\* BrokerManager._place_robinhood_order
_place_robinhood_order(order_spec) == None

\* BrokerManager.place_order
place_order(broker_type, order_spec, submitted) ==
    IF broker_type = "alpaca" THEN _place_alpaca_order(order_spec, submitted)
    ELSE IF broker_type = "robinhood" THEN _place_robinhood_order(order_spec)
    ELSE _simulate_order(order_spec)

\* BrokerManager.cancel_order; cancelled is whether cancel_order_by_id returned
cancel_order(broker_type, order_id, cancelled) ==
    IF broker_type = "alpaca" THEN cancelled
    ELSE IF broker_type = "robinhood" THEN FALSE
    ELSE TRUE

\* without clients the manager trades on paper
NoBroker == BrokerManager("none", None)

----------------------------------------------------------------------------
(* State shared by the specifications *)

NoPosition == [entry_price |-> 0, target_price |-> None, stop_price |-> None,
               size |-> Q(0)]

NoAction == [action |-> "NONE", reason |-> "", forced |-> FALSE]

\* the locals of one analyze_symbol call
IdleTask == [pc |-> "idle", current_price |-> 0, position |-> NoPosition,
             position_action |-> NoAction, logged |-> "no"]

NoSizing == [who |-> "none"]

NoApplied == [symbol |-> "none"]

NoCall == [pc |-> "idle"]

InitCommon ==
    /\ ledger = <<>>
    /\ metrics = initial_metrics
    /\ open_positions = <<>>
    /\ account = initial_account
    /\ task = [s \in Symbols |-> IdleTask]
    /\ active_trades = {}
    /\ sizing = NoSizing
    /\ broker = NoBroker
    /\ applied = NoApplied
    /\ llm = NoCall

----------------------------------------------------------------------------
(* Spec: the ledger store and the position engine, one call at a time *)

LogTrade(trade_data) ==
    LET result == log_trade(ledger, trade_data)
    IN  /\ Len(ledger) < MaxLedger
        /\ ledger' = result.df
        /\ metrics' = IF result.ok THEN _update_metrics(result.df) ELSE metrics
        /\ UNCHANGED <<open_positions, account, task, active_trades, sizing, broker, applied, llm>>

UpdateTrade(symbol, updates) ==
    LET result == update_trade(ledger, symbol, updates)
    IN  /\ ledger' = result.df
        /\ metrics' = IF result.ok THEN _update_metrics(result.df) ELSE metrics
        /\ UNCHANGED <<open_positions, account, task, active_trades, sizing, broker, applied, llm>>

GetMetrics ==
    /\ metrics' = _update_metrics(ledger)
    /\ UNCHANGED <<ledger, open_positions, account, task, active_trades, sizing, broker, applied, llm>>

\* analyze_position on the symbol's open position as analyze_symbol reads it
AnalyzePosition(symbol, current_price, response) ==
    LET open_df  == get_open_positions(ledger)
        position == position_data_of(open_df, symbol)
        result   == analyze_position(ledger, account, symbol, current_price,
                                     position, response)
    IN  /\ has_open_position(open_df, symbol)
        /\ Len(result.df) <= MaxLedger
        /\ ledger' = result.df
        /\ metrics' = IF result.wrote THEN _update_metrics(result.df) ELSE metrics
        /\ UNCHANGED <<open_positions, account, task, active_trades, sizing, broker, applied, llm>>

Init == InitCommon

Next ==
    \/ \E trade_data \in LogInputs : LogTrade(trade_data)
    \/ \E symbol \in Symbols, updates \in Patches : UpdateTrade(symbol, updates)
    \/ GetMetrics
    \/ \E symbol \in Symbols, current_price \in Prices, response \in Responses :
          AnalyzePosition(symbol, current_price, response)

Spec == Init /\ [][Next]_vars

----------------------------------------------------------------------------
(* Properties of the ledger store *)

RowsOf(df, symbol) == {i \in 1..Len(df) : df[i].symbol = symbol}

NotClosedRows(df, symbol) == {i \in RowsOf(df, symbol) : df[i].status # "CLOSED"}

\* C5: after any sequence of LogTrade, UpdateTrade and position actions the
\* ledger holds at most one record with status other than CLOSED per symbol
\* (a LogTrade for a symbol that has an OPEN record is refused)
C5_OneOpenPerSymbol ==
    \A symbol \in Symbols : Cardinality(NotClosedRows(ledger, symbol)) <= 1

\* C7: the metrics snapshot's total_trades is the number of rows of the ledger,
\* and every row is counted once, as open or as closed
C7_MetricsConsistent ==
    /\ metrics.total_trades = Len(ledger)
    /\ Len(get_open_positions(ledger))
         + Cardinality({i \in 1..Len(ledger) : ledger[i].status = "CLOSED"})
       = metrics.total_trades

C7_Witness ==
    /\ Len(ledger) = 2
    /\ ledger[1].status = "CLOSED"
    /\ ledger[2].status = "OPEN"
    /\ metrics.total_trades = 2

\* C8: a row closed with an exit price holds the profit_loss and
\* profit_loss_percent the store computes from the stored entry price and the
\* stored size, whatever figures the caller sent
C8_StoreComputesPnL ==
    \A i \in 1..Len(ledger) :
        (ledger[i].status = "CLOSED" /\ IsSome(ledger[i].exit_price)) =>
            /\ ledger[i].profit_loss =
                   Some(QTimes(Val(ledger[i].exit_price) - ledger[i].entry_price,
                               ledger[i].position_size))
            /\ IsSome(ledger[i].profit_loss_percent)
            /\ PctEq(Val(ledger[i].profit_loss_percent),
                     Pct(Val(ledger[i].exit_price), ledger[i].entry_price))

\* a row closed by the patch that carried wrong figures, after its size was halved
C8_Witness ==
    \E i \in 1..Len(ledger) :
        /\ ledger[i].status = "CLOSED"
        /\ ledger[i].exit_price = BogusClose.exit_price
        /\ ledger[i].position_size = Q(50)
        /\ ledger[i].profit_loss = Some(Q(5000))
        /\ ledger[i].profit_loss # BogusClose.profit_loss

\* C9: an UpdateTrade whose patch closes the trade without an exit_price fails
\* and leaves the ledger unchanged
C9_CloseWithoutExitRefused ==
    [][\A symbol \in Symbols :
          UpdateTrade(symbol, [status |-> "CLOSED"]) =>
              /\ ~update_trade(ledger, symbol, [status |-> "CLOSED"]).ok
              /\ ledger' = ledger]_vars

\* C13: update_trade for a symbol with no OPEN record changes neither the file
\* nor the metrics; otherwise it writes the patch into the most recently appended
\* OPEN record of the symbol and leaves every other record, the CLOSED ones of
\* the symbol included, as it was
C13_UpdateTargetsLastOpen ==
    [][\A symbol \in Symbols, updates \in Patches :
          (Len(ledger') = Len(ledger) /\ UpdateTrade(symbol, updates)) =>
              LET open == {i \in RowsOf(ledger, symbol) : ledger[i].status = "OPEN"}
              IN  IF open = {}
                  THEN ledger' = ledger /\ metrics' = metrics
                  ELSE /\ Len(ledger') = Len(ledger)
                       /\ \A i \in 1..Len(ledger) :
                            IF \A j \in open : j <= i
                            THEN i \in open =>
                                   \A k \in DOMAIN updates \cap
                                            {"status", "position_size", "exit_price"} :
                                       ledger'[i][k] = updates[k]
                            ELSE ledger'[i] = ledger[i]
                       /\ \A i \in RowsOf(ledger, symbol) \ open :
                            ledger'[i] = ledger[i]]_vars

C13_Witness ==
    /\ Len(ledger) = 2
    /\ ledger[1].symbol = ledger[2].symbol
    /\ ledger[1].status = "OPEN" /\ ledger[1].position_size = Q(100)
    /\ ledger[2].status = "OPEN" /\ ledger[2].position_size = Q(50)

\* C14: log_trade appends a row only when the record carries symbol, entry_price
\* and a position size; a record that lacks one of them is rejected and leaves
\* the file and the metrics as they were
C14_LogTradeValidated ==
    [][\A trade_data \in LogInputs :
          LogTrade(trade_data) =>
              IF /\ {"symbol", "entry_price"} \subseteq DOMAIN trade_data
                 /\ DOMAIN trade_data \cap {"size", "position_size"} # {}
              THEN Len(ledger') = Len(ledger) + 1
              ELSE ledger' = ledger /\ metrics' = metrics]_vars

\* C20: a record that is CLOSED stays in the file with every field as it is,
\* whatever log_trade, update_trade or position action comes later; no record is
\* dropped, and a status changes only from OPEN to CLOSED
C20_ClosedIsTerminal ==
    [][/\ Len(ledger') >= Len(ledger)
       /\ \A i \in 1..Len(ledger) :
            /\ ledger[i].status = "CLOSED" => ledger'[i] = ledger[i]
            /\ ledger'[i].status # ledger[i].status =>
                   ledger[i].status = "OPEN" /\ ledger'[i].status = "CLOSED"]_vars

C20_Witness ==
    /\ Len(ledger) = 2
    /\ ledger[1].symbol = ledger[2].symbol
    /\ ledger[1].status = "CLOSED" /\ ledger[1].exit_price = Some(1100)
    /\ ledger[1].profit_loss = Some(Q(10000))
    /\ ledger[2].status = "OPEN" /\ ledger[2].position_size = Q(50)

----------------------------------------------------------------------------
(* SpecStore: every operation of the ledger store, reset_statistics included *)

\* reset_statistics: metrics.json is rewritten with the initial metrics and
\* trades.csv with its header only
reset_statistics(df) == [ok |-> TRUE, df |-> <<>>, metrics |-> initial_metrics]

ResetStatistics ==
    /\ ledger' = reset_statistics(ledger).df
    /\ metrics' = reset_statistics(ledger).metrics
    /\ UNCHANGED <<open_positions, account, task, active_trades, sizing, broker, applied, llm>>

\* export_data: trades.csv is read and copied to the exports directory
ExportData ==
    UNCHANGED vars

NextStore ==
    \/ Next
    \/ ResetStatistics
    \/ ExportData

SpecStore == Init /\ [][NextStore]_vars

\* C21: no operation of the store removes a record: every record of the file is
\* still in the file, at its place and for its symbol, after every step
C21_RecordsNeverDeleted ==
    [][\A i \in 1..Len(ledger) :
          /\ i <= Len(ledger')
          /\ ledger'[i].symbol = ledger[i].symbol
          /\ ledger[i].status = "CLOSED" => ledger'[i].status = "CLOSED"]_vars

----------------------------------------------------------------------------
(* SpecRun: TradingSystem.run, one analyze_symbol task per symbol, gathered *)

NoSetup == [entry_price |-> 0]

\* main.py analyze_symbol, lines 392-403: the record built from a parsed setup
trade_data_of(symbol, setup) ==
    [symbol       |-> symbol,
     entry_price  |-> setup.entry_price,
     target_price |-> Some(setup.target_price),
     stop_price   |-> Some(setup.stop_price),
     size         |-> Q(setup.size),
     status       |-> "OPEN"]

Idle == \A s \in Symbols : task[s].pc = "idle"

\* run, lines 549-566: the scanner's symbols, extended by the symbols of the open
\* positions, each become one task of the gather
run_cycle_start(scanned) ==
    LET open_df == get_open_positions(ledger)
        symbols == scanned \cup {s \in Symbols : has_open_position(open_df, s)}
    IN  /\ Idle
        /\ symbols # {}
        /\ task' = [s \in Symbols |->
                       IF s \in symbols THEN [IdleTask EXCEPT !.pc = "start"]
                       ELSE IdleTask]
        /\ UNCHANGED <<ledger, metrics, open_positions, account, active_trades, sizing, broker, applied, llm>>

\* analyze_symbol, lines 356-358: no stock data, the task returns
analyze_symbol_no_data(symbol) ==
    /\ task[symbol].pc = "start"
    /\ task' = [task EXCEPT ![symbol].pc = "done"]
    /\ UNCHANGED <<ledger, metrics, open_positions, account, active_trades, sizing, broker, applied, llm>>

\* analyze_symbol up to its first await: the price is read, the open positions are
\* read, and analyze_position returns a forced exit before the oracle is asked
analyze_symbol_begin(symbol, current_price) ==
    LET open_df    == get_open_positions(ledger)
        position   == position_data_of(open_df, symbol)
        force_exit == _should_force_exit(current_price, position)
    IN  /\ task[symbol].pc = "start"
        /\ task' = [task EXCEPT ![symbol] =
              IF ~has_open_position(open_df, symbol)
              THEN [@ EXCEPT !.pc = "await_setup"]
              ELSE IF force_exit.action # "NONE"
              THEN [@ EXCEPT !.pc = "done", !.current_price = current_price,
                             !.position = position,
                             !.position_action =
                                 [action |-> force_exit.action,
                                  reason |-> force_exit.reason, forced |-> TRUE]]
              ELSE [@ EXCEPT !.pc = "await_position",
                             !.current_price = current_price,
                             !.position = position]]
        /\ UNCHANGED <<ledger, metrics, open_positions, account, active_trades, sizing, broker, applied, llm>>

\* analyze_position after the oracle has answered: the action is parsed, a HOLD may
\* be upgraded, and the action is handled against the file as it is now
analyze_position_resume(symbol, response) ==
    LET result == analyze_position(ledger, account, symbol, task[symbol].current_price,
                                   task[symbol].position, response)
    IN  /\ task[symbol].pc = "await_position"
        /\ Len(result.df) <= MaxLedger
        /\ ledger' = result.df
        /\ metrics' = IF result.wrote THEN _update_metrics(result.df) ELSE metrics
        /\ task' = [task EXCEPT ![symbol].pc = "done",
                                ![symbol].position_action =
                                    [action |-> result.action, reason |-> result.reason,
                                     forced |-> result.forced]]
        /\ UNCHANGED <<open_positions, account, active_trades, sizing, broker, applied, llm>>

\* analyze_symbol after analyze_setup has answered: a setup is logged as an OPEN
\* trade; _execute_trade then fails before it records an active trade
analyze_setup_resume(symbol, setup) ==
    LET result == log_trade(ledger, trade_data_of(symbol, setup))
    IN  /\ task[symbol].pc = "await_setup"
        /\ IF setup = NoSetup
           THEN /\ task' = [task EXCEPT ![symbol].pc = "done"]
                /\ UNCHANGED <<ledger, metrics>>
           ELSE /\ Len(ledger) < MaxLedger
                /\ ledger' = result.df
                /\ metrics' = IF result.ok THEN _update_metrics(result.df) ELSE metrics
                /\ task' = [task EXCEPT ![symbol].pc = "done",
                                        ![symbol].logged =
                                            IF result.ok THEN "ok" ELSE "failed"]
        /\ UNCHANGED <<open_positions, account, active_trades, sizing, broker, applied, llm>>

\* the gather has returned: _perform_cooldown_tasks, then the next cycle
cooldown ==
    /\ ~Idle
    /\ \A s \in Symbols : task[s].pc \in {"idle", "done"}
    /\ task' = [s \in Symbols |-> IdleTask]
    /\ active_trades' = {}
    /\ UNCHANGED <<ledger, metrics, open_positions, account, sizing, broker, applied, llm>>

NextRun ==
    \/ \E scanned \in SUBSET Symbols : run_cycle_start(scanned)
    \/ \E symbol \in Symbols : analyze_symbol_no_data(symbol)
    \/ \E symbol \in Symbols, current_price \in Prices :
          analyze_symbol_begin(symbol, current_price)
    \/ \E symbol \in Symbols, response \in Responses :
          analyze_position_resume(symbol, response)
    \/ \E symbol \in Symbols, setup \in Setups \cup {NoSetup} :
          analyze_setup_resume(symbol, setup)
    \/ cooldown

SpecRun == InitCommon /\ [][NextRun]_vars

----------------------------------------------------------------------------
(* Properties of a run *)

\* the task of the symbol holds a position that analyze_position was called with
Evaluating(s) == task[s].position # NoPosition

AtOrBelowStop(s) ==
    /\ IsSome(task[s].position.stop_price)
    /\ task[s].current_price <= Val(task[s].position.stop_price)

LossOverTwoPercent(s) ==
    (task[s].position.entry_price - task[s].current_price) * 100
        > 2 * task[s].position.entry_price

C2_ForcedExitApplied ==
    \A s \in Symbols :
        (Evaluating(s) /\ task[s].pc = "done" /\ AtOrBelowStop(s)) =>
            \E i \in RowsOf(ledger, s) :
                /\ ledger[i].status = "CLOSED"
                /\ ledger[i].exit_price = Some(task[s].current_price)
                /\ ledger[i].profit_loss
                     = Some(QTimes(task[s].current_price - task[s].position.entry_price,
                                   task[s].position.size))

C4_RiskGated ==
    [][\A symbol \in Symbols, setup \in Setups :
          (analyze_setup_resume(symbol, setup) /\ Len(ledger') = Len(ledger) + 1) =>
              check_trade_allowed(account, setup.entry_price * setup.size,
                                  Abs(setup.entry_price - setup.stop_price) * setup.size
                                 ).allowed]_vars

\* C6: every log_trade of the gathered tasks succeeds, and the open positions hold
\* exactly one record for each symbol whose task has logged one
C6_ConcurrentLogging ==
    \A s \in Symbols :
        /\ task[s].logged # "failed"
        /\ task[s].logged = "ok" =>
               Cardinality({i \in 1..Len(get_open_positions(ledger)) :
                               get_open_positions(ledger)[i].symbol = s}) = 1

C6_Witness ==
    /\ \A s \in Symbols : task[s].logged = "ok"
    /\ Len(get_open_positions(ledger)) = Cardinality(Symbols)

\* the closed rows of the file whose profit_loss is above (sign 1) or below
\* (sign -1) zero
ClosedWith(df, sign) ==
    {i \in 1..Len(df) : /\ df[i].status = "CLOSED"
                        /\ IsSome(df[i].profit_loss)
                        /\ Val(df[i].profit_loss).num * sign > 0}

\* C12: in every interleaving of the tasks the metrics snapshot is the one of the
\* file as it is now: every successful log_trade and update_trade has recomputed
\* total_trades and the closed-trade counts before it returned to its task
C12_MetricsFresh ==
    /\ metrics.total_trades = Len(ledger)
    /\ metrics.winning_trades = Cardinality(ClosedWith(ledger, 1))
    /\ metrics.losing_trades = Cardinality(ClosedWith(ledger, -1))
    /\ \A s \in Symbols : task[s].logged = "ok" => metrics.total_trades >= 1

C12_Witness ==
    \E s \in Symbols :
        /\ task[s].pc = "done"
        /\ task[s].position_action.action = "EXIT"
        /\ ~task[s].position_action.forced
        /\ task[s].current_price = 1050
        /\ metrics.winning_trades = 1
        /\ \E t \in Symbols : task[t].logged = "ok" /\ metrics.total_trades = 2

----------------------------------------------------------------------------
(* SpecSizing: the three calculate_position_size functions applied to inputs *)

EntryPrices == {1000, 2000, 5000}

StopPrices == {500, 950, 1000, 1900, 1960, 4900}

\* the balance and the buying power of the account a size is computed for
SizingAccounts ==
    {[initial_account EXCEPT !.current_balance = b[1], !.buying_power = b[2],
                             !.high_water_mark = Max2(b[1], default_starting_balance)] :
        b \in {<<300000, 300000>>, <<300000, 40000>>,
               <<100000, 100000>>, <<500000, 250000>>}}

AccountManagerSize(entry_price, stop_price) ==
    /\ sizing' = [who |-> "AccountManager", entry_price |-> entry_price,
                  stop_price |-> stop_price,
                  result |-> AccountManager_calculate_position_size(
                                 account, entry_price, stop_price)]
    /\ UNCHANGED <<ledger, metrics, open_positions, account, task, active_trades, broker, applied, llm>>

BrokerManagerSize(entry_price, stop_price) ==
    /\ sizing' = [who |-> "BrokerManager", entry_price |-> entry_price,
                  stop_price |-> stop_price,
                  result |-> BrokerManager_calculate_position_size(
                                 account, entry_price, stop_price)]
    /\ UNCHANGED <<ledger, metrics, open_positions, account, task, active_trades, broker, applied, llm>>

PositionManagerSize(entry_price, stop_price) ==
    /\ sizing' = [who |-> "PositionManager", entry_price |-> entry_price,
                  stop_price |-> stop_price,
                  result |-> PositionManager_calculate_position_size(
                                 account, entry_price, stop_price)]
    /\ UNCHANGED <<ledger, metrics, open_positions, account, task, active_trades, broker, applied, llm>>

InitSizing ==
    /\ ledger = <<>>
    /\ metrics = initial_metrics
    /\ open_positions = <<>>
    /\ account \in SizingAccounts
    /\ task = [s \in Symbols |-> IdleTask]
    /\ active_trades = {}
    /\ sizing = NoSizing
    /\ broker = NoBroker
    /\ applied = NoApplied
    /\ llm = NoCall

NextSizing ==
    \/ \E entry_price \in EntryPrices, stop_price \in StopPrices :
          AccountManagerSize(entry_price, stop_price)
    \/ \E entry_price \in EntryPrices, stop_price \in StopPrices :
          BrokerManagerSize(entry_price, stop_price)
    \/ \E entry_price \in EntryPrices, stop_price \in StopPrices :
          PositionManagerSize(entry_price, stop_price)

SpecSizing == InitSizing /\ [][NextSizing]_vars

Sized == sizing.who # "none" /\ "shares" \in DOMAIN sizing.result

\* C10: the risk_percent of every computed size, shares * |entry - stop| /
\* current_balance * 100, is at most risk_per_trade_percent, after the minimum
\* clamp and after rounding to the share increment
C10_RiskCap ==
    Sized =>
        /\ sizing.result.risk_percent.num
             = sizing.result.shares * Abs(sizing.entry_price - sizing.stop_price) * 100
        /\ sizing.result.risk_percent.den = account.current_balance
        /\ sizing.result.risk_percent.num
             <= risk_per_trade_percent * sizing.result.risk_percent.den

\* C11: the position_value of every computed size, shares * entry_price, is at
\* most the account's buying_power and at most max_position_percent of
\* current_balance, after the minimum clamp and after rounding
C11_BuyingPowerCap ==
    Sized =>
        /\ sizing.result.position_value = sizing.result.shares * sizing.entry_price
        /\ sizing.result.position_value <= account.buying_power
        /\ sizing.result.position_value * 100
             <= max_position_percent * account.current_balance

\* C16: AccountManager and BrokerManager size a trade in this order: the floor
\* of the risk budget over the risk per share, then the clamp to the minimum, or
\* else to the maximum and the buying power, then the nearest multiple of
\* preferred_share_increment; the returned figures are those of the rounded
\* count, and balance 3000, entry 10.00, stop 9.50 gives 60 shares worth 600
C16_SizingOrder ==
    (Sized /\ sizing.who \in {"AccountManager", "BrokerManager"}) =>
        LET balance == account.current_balance
            entry   == sizing.entry_price
            rps     == Abs(sizing.entry_price - sizing.stop_price)
            raw     == (balance * risk_per_trade_percent) \div (100 * rps)
            min100  == balance * min_position_percent
            max100  == Min2(balance * max_position_percent, account.buying_power * 100)
            clamped == IF raw * entry * 100 < min100 THEN min100 \div (100 * entry)
                       ELSE IF raw * entry * 100 > max100 THEN max100 \div (100 * entry)
                       ELSE raw
            result  == sizing.result
        IN  /\ result.shares % preferred_share_increment = 0
            /\ 2 * Abs(result.shares - clamped) <= preferred_share_increment
            /\ result.position_value = result.shares * entry
            /\ result.risk_amount = result.shares * rps
            /\ result.risk_percent = [num |-> result.risk_amount * 100, den |-> balance]
            /\ (balance = 300000 /\ account.buying_power = 300000
                  /\ entry = 1000 /\ sizing.stop_price = 950) =>
                   result.shares = 60 /\ result.position_value = 60000

C16_Witness ==
    /\ Sized /\ sizing.who = "AccountManager"
    /\ account.current_balance = 100000 /\ account.buying_power = 100000
    /\ sizing.entry_price = 5000 /\ sizing.stop_price = 4900
    /\ sizing.result.shares = 5

\* C17: a size asked for with entry_price = stop_price is answered with the
\* invalid-risk error, which carries no share count, and the account is unchanged
C17_InvalidRisk ==
    [][\A entry_price \in EntryPrices \cap StopPrices :
          (\/ AccountManagerSize(entry_price, entry_price)
           \/ BrokerManagerSize(entry_price, entry_price)
           \/ PositionManagerSize(entry_price, entry_price)) =>
              /\ sizing'.result = [error |-> "Invalid risk per share"]
              /\ "shares" \notin DOMAIN sizing'.result
              /\ account' = account]_vars

C17_Witness ==
    /\ sizing.who = "PositionManager"
    /\ sizing.entry_price = sizing.stop_price
    /\ sizing.result = [error |-> "Invalid risk per share"]

----------------------------------------------------------------------------
(* SpecAccount: the account refreshed and asked for trade allowances *)

\* the profiles an authenticated broker client returns
Profiles ==
    {[equity |-> e, buying_power |-> b] :
        e \in {250000, 300000, 350000}, b \in {20000, 300000}}

\* the in-memory positions handed to a paper refresh
PositionBooks ==
    {<<>>,
     [AAPL |-> [current_value |-> 52500, unrealized_pl |-> 2500, realized_pl |-> 0]],
     [AAPL |-> [current_value |-> 40000, unrealized_pl |-> -10000, realized_pl |-> 0]],
     [AAPL |-> [current_value |-> 290000, unrealized_pl |-> -10000, realized_pl |-> 0]],
     [AAPL |-> [current_value |-> 52500, unrealized_pl |-> 2500, realized_pl |-> 0],
      MSFT |-> [current_value |-> 250000, unrealized_pl |-> 0, realized_pl |-> 50000]]}

PositionValues == {10000, 50000, 100000}

RiskAmounts == {2500, 200000}

RefreshLive(profile) ==
    /\ account' = update_account_metrics_live(account, profile)
    /\ UNCHANGED <<ledger, metrics, open_positions, task, active_trades, sizing, broker, applied, llm>>

RefreshPaper(positions) ==
    /\ account' = update_account_metrics_paper(account, positions)
    /\ UNCHANGED <<ledger, metrics, open_positions, task, active_trades, sizing, broker, applied, llm>>

CheckTradeAllowed(position_value, risk_amount) ==
    /\ sizing' = [who |-> "check_trade_allowed", position_value |-> position_value,
                  risk_amount |-> risk_amount,
                  result |-> check_trade_allowed(account, position_value, risk_amount)]
    /\ UNCHANGED <<ledger, metrics, open_positions, account, task, active_trades, broker, applied, llm>>

InitAccount ==
    /\ ledger = <<>>
    /\ metrics = initial_metrics
    /\ open_positions = <<>>
    /\ account \in {initial_account}
                   \cup {_initialize_account_live(profile) : profile \in Profiles}
    /\ task = [s \in Symbols |-> IdleTask]
    /\ active_trades = {}
    /\ sizing = NoSizing
    /\ broker = NoBroker
    /\ applied = NoApplied
    /\ llm = NoCall

NextAccount ==
    \/ \E profile \in Profiles : RefreshLive(profile)
    \/ \E positions \in PositionBooks : RefreshPaper(positions)
    \/ \E position_value \in PositionValues, risk_amount \in RiskAmounts :
          CheckTradeAllowed(position_value, risk_amount)

SpecAccount == InitAccount /\ [][NextAccount]_vars

\* C15: check_trade_allowed reports the five gates, each computed from the account
\* as it is, allowed is true exactly when all five are true, and the call changes
\* no account metric
C15_FiveGates ==
    [][\A position_value \in PositionValues, risk_amount \in RiskAmounts :
          CheckTradeAllowed(position_value, risk_amount) =>
              LET result == sizing'.result
                  gates  == result.checks
              IN  /\ account' = account
                  /\ DOMAIN gates = {"has_buying_power", "within_position_limit",
                                     "within_risk_limit", "within_daily_loss",
                                     "has_cash_reserve"}
                  /\ gates.has_buying_power = (position_value <= account.buying_power)
                  /\ gates.within_position_limit
                       = (position_value * 100
                            <= max_position_percent * account.current_balance)
                  /\ gates.within_risk_limit
                       = (risk_amount * 100
                            <= max_account_risk * account.current_balance)
                  /\ gates.within_daily_loss
                       = (account.unrealized_pl * 100
                            >= -max_daily_loss_percent * account.starting_balance)
                  /\ gates.has_cash_reserve
                       = (account.buying_power - position_value >= account.cash_reserve)
                  /\ result.allowed = (\A k \in DOMAIN gates : gates[k])]_vars

C15_Witness ==
    /\ sizing.who = "check_trade_allowed"
    /\ ~sizing.result.allowed
    /\ ~sizing.result.checks.has_cash_reserve
    /\ \A k \in DOMAIN sizing.result.checks \ {"has_cash_reserve"} :
          sizing.result.checks[k]

C19_CashReserve ==
    account.cash_reserve * 100 = account.current_balance * cash_reserve_percent

----------------------------------------------------------------------------
(* Specification of the broker: BrokerManager built from every combination of
   clients, then orders placed and cancelled through it *)

OrderSpecs ==
    [symbol : Symbols, side : {"buy"}, type : {"market", "limit"},
     quantity : {10},
     limit_price : {None, Some(1000)}, price : {None, Some(990)}]

\* what submit_order answers: an exception, or the order the broker accepted
AlpacaSubmissions ==
    {None, Some([id |-> "alpaca_order", status |-> "accepted",
                 filled_qty |-> 0, filled_avg_price |-> None])}

OrderIds == {"paper_timestamp", "alpaca_order"}

PlaceOrder(order_spec, submitted) ==
    /\ broker' = [broker EXCEPT
                    !.call = "place_order",
                    !.order_spec = Some(order_spec),
                    !.result = place_order(broker.broker_type, order_spec, submitted)]
    /\ UNCHANGED <<ledger, metrics, open_positions, account, task, active_trades,
                   sizing, applied, llm>>

CancelOrder(order_id, cancelled) ==
    /\ broker' = [broker EXCEPT
                    !.call = "cancel_order",
                    !.order_spec = None,
                    !.result = Some(cancel_order(broker.broker_type, order_id,
                                                 cancelled))]
    /\ UNCHANGED <<ledger, metrics, open_positions, account, task, active_trades,
                   sizing, applied, llm>>

InitBroker ==
    /\ ledger = <<>>
    /\ metrics = initial_metrics
    /\ open_positions = <<>>
    /\ account = initial_account
    /\ task = [s \in Symbols |-> IdleTask]
    /\ active_trades = {}
    /\ sizing = NoSizing
    /\ applied = NoApplied
    /\ llm = NoCall
    /\ broker \in {BrokerManager(creds, robinhood_client) :
                      creds \in AlpacaCredentials,
                      robinhood_client \in RobinhoodClients}

NextBroker ==
    \/ \E order_spec \in OrderSpecs, submitted \in AlpacaSubmissions :
          PlaceOrder(order_spec, submitted)
    \/ \E order_id \in OrderIds, cancelled \in BOOLEAN :
          CancelOrder(order_id, cancelled)

SpecBroker == InitBroker /\ [][NextBroker]_vars

----------------------------------------------------------------------------
(* Properties of what the position actions and the execution step write *)

\* C23: when the execution of an accepted setup fails or is abandoned (no
\* credentials, confidence at or below the threshold, no position size, a
\* failing broker call), so that active_trades gets no entry for the symbol,
\* the ledger has gained no OPEN record for that setup either
C23_AbandonedExecutionLeavesNoRecord ==
    [][\A symbol \in Symbols :
          (/\ task[symbol].pc = "await_setup"
           /\ task'[symbol].pc = "done"
           /\ symbol \notin active_trades')
          => open_trade_rows(ledger', symbol) = open_trade_rows(ledger, symbol)]_vars

\* C24: in every ledger a record is CLOSED exactly when its exit_price, its
\* exit_time and its profit_loss are all set, whether it was closed by
\* update_trade or logged as the slice of a partial exit, and no OPEN record
\* has any of the three set
C24_ExitFieldsSetTogether ==
    \A i \in 1..Len(ledger) :
        /\ ledger[i].status = "CLOSED" <=>
              /\ IsSome(ledger[i].exit_price)
              /\ IsSome(ledger[i].exit_time)
              /\ IsSome(ledger[i].profit_loss)
        /\ ledger[i].status = "OPEN" =>
              /\ ~IsSome(ledger[i].exit_price)
              /\ ~IsSome(ledger[i].exit_time)
              /\ ~IsSome(ledger[i].profit_loss)

\* the oracle's answer that asks for a partial exit
PartialExitResponse == [action |-> "PARTIAL_EXIT", params |-> NoParams]

\* C25: a successful PARTIAL_EXIT of a position of size S at price p appends
\* exactly one CLOSED record of the symbol, of size S/2 and with exit_price p,
\* and leaves the symbol's open record with size S - S/2
C25_PartialExitConservesSize ==
    [][\A symbol \in Symbols, current_price \in Prices :
          (/\ Len(ledger') # Len(ledger)
           /\ AnalyzePosition(symbol, current_price, PartialExitResponse))
          => LET S   == position_data_of(get_open_positions(ledger), symbol).size
                 new == ledger'[Len(ledger')]
             IN  /\ Len(ledger') = Len(ledger) + 1
                 /\ new.symbol = symbol
                 /\ new.status = "CLOSED"
                 /\ new.position_size = QHalf(S)
                 /\ new.exit_price = Some(current_price)
                 /\ \A i \in NotClosedRows(ledger', symbol) :
                       QAdd(ledger'[i].position_size, new.position_size) = S]_vars

----------------------------------------------------------------------------
(* Specification of the position handler: the ledger store, and
   PositionManager.handle_position_action called with the position its caller
   read before it awaited the oracle *)

\* the positions callers hold
PositionSnapshots ==
    {[entry_price |-> 1000, target_price |-> Some(1100), stop_price |-> Some(950),
      size |-> Q(100)]}

HandlePositionAction(symbol, action, position, current_price) ==
    LET handled == handle_position_action(ledger, account, symbol, action, position,
                                          current_price)
    IN  /\ Len(handled.df) <= MaxLedger
        /\ ledger' = handled.df
        /\ metrics' = IF handled.wrote THEN _update_metrics(handled.df) ELSE metrics
        /\ UNCHANGED <<open_positions, account, task, active_trades, sizing, broker, applied, llm>>

NextHandler ==
    \/ Next
    \/ \E symbol \in Symbols, response \in Responses,
          position \in PositionSnapshots, current_price \in Prices :
          HandlePositionAction(symbol, _parse_position_action(response), position,
                               current_price)

SpecHandler == Init /\ [][NextHandler]_vars

\* C26: a partial exit whose second write fails, because the symbol has no OPEN
\* record for update_trade to reduce, leaves the ledger as it was before the
\* partial exit: the slice appended by log_trade is taken back
C26_PartialExitAllOrNothing ==
    [][\A symbol \in Symbols, position \in PositionSnapshots, current_price \in Prices :
          (/\ open_trade_rows(ledger, symbol) = {}
           /\ HandlePositionAction(symbol, _parse_position_action(PartialExitResponse),
                                   position, current_price))
          => ledger' = ledger]_vars

\* the oracle's answers that ask for a stop adjustment
AdjustStopsResponses == {r \in Responses : r.action = "ADJUST_STOPS"}

\* C27: an ADJUST_STOPS never moves the stop of a long position down: across
\* any ADJUST_STOPS on an open position the stored stop_price does not decrease
C27_StopNeverLowered ==
    [][\A symbol \in Symbols, current_price \in Prices,
          response \in AdjustStopsResponses :
          AnalyzePosition(symbol, current_price, response)
          => \A i \in open_trade_rows(ledger, symbol) :
                IsSome(ledger[i].stop_price)
                => /\ IsSome(ledger'[i].stop_price)
                   /\ Val(ledger'[i].stop_price) >= Val(ledger[i].stop_price)]_vars

----------------------------------------------------------------------------
(* Specification of the position state machine: setups are logged as OPEN
   positions, then one answer of the oracle is applied to one of them and kept
   together with the file it was applied to *)

\* analyze_symbol without an open position: the setup is logged
LogSetup(symbol, setup) ==
    LET result == log_trade(ledger, trade_data_of(symbol, setup))
    IN  /\ applied = NoApplied
        /\ ~has_open_position(get_open_positions(ledger), symbol)
        /\ Len(ledger) < MaxLedger
        /\ ledger' = result.df
        /\ metrics' = IF result.ok THEN _update_metrics(result.df) ELSE metrics
        /\ applied' = NoApplied
        /\ UNCHANGED <<open_positions, account, task, active_trades, sizing, broker, llm>>

\* analyze_symbol with an open position: analyze_position decides and
\* handle_position_action writes
ApplyAction(symbol, current_price, response) ==
    LET open_df  == get_open_positions(ledger)
        position == position_data_of(open_df, symbol)
        result   == analyze_position(ledger, account, symbol, current_price,
                                     position, response)
    IN  /\ applied = NoApplied
        /\ has_open_position(open_df, symbol)
        /\ Len(result.df) <= MaxLedger
        /\ ledger' = result.df
        /\ metrics' = IF result.wrote THEN _update_metrics(result.df) ELSE metrics
        /\ applied' = [symbol |-> symbol, current_price |-> current_price,
                       position |-> position, response |-> response,
                       action |-> result.action, forced |-> result.forced,
                       wrote |-> result.wrote, before |-> ledger]
        /\ UNCHANGED <<open_positions, account, task, active_trades, sizing, broker, llm>>

\* the setups of these behaviours: the oracle's, and one with its stop at 9.85,
\* 1.5% under the entry
PositionSetups ==
    Setups \cup {[entry_price |-> 1000, target_price |-> 1100, stop_price |-> 985,
                  size |-> 50]}

\* the prices of these behaviours: the market's, and 9.86, down 1.4%
PositionPrices == Prices \cup {986}

NextPosition ==
    \/ \E symbol \in Symbols, setup \in PositionSetups : LogSetup(symbol, setup)
    \/ \E symbol \in Symbols, current_price \in PositionPrices, response \in Responses :
          ApplyAction(symbol, current_price, response)

SpecPosition == InitCommon /\ [][NextPosition]_vars

\* an answer has been applied
Applied == applied # NoApplied

\* the oracle's plain HOLD
HoldResponse == [action |-> "HOLD", params |-> NoParams]

\* the answer names no stop price that can be parsed
NoParsableStop(response) == ~response.params.given \/ ~response.params.parsable

\* the risk at the new stop, (entry_price - new_stop) * position_size as a
\* percentage of current_balance, exceeds risk_per_trade_percent
OverRiskLimit(response, position) ==
    /\ response.params.given /\ response.params.parsable
    /\ (position.entry_price - response.params.value) * position.size.num * 100
          > risk_per_trade_percent * account.current_balance * position.size.den

C29_HoldLeavesLedger ==
    (Applied /\ applied.response.action = "HOLD" /\ applied.action = "HOLD") =>
        /\ ledger = applied.before
        /\ ~applied.wrote

\* the oracle answered HOLD at 10.50 and the position is as it was
C29_Witness ==
    /\ Applied
    /\ applied.response.action = "HOLD"
    /\ applied.action = "HOLD"
    /\ applied.current_price = 1050
    /\ ledger = applied.before
    /\ get_open_positions(ledger) # <<>>

----------------------------------------------------------------------------
(* Properties of the position actions in a run *)

\* the task of the symbol has applied an EXIT that the oracle asked for or that
\* replaced its HOLD
ExitApplied(s) ==
    /\ task[s].pc = "done"
    /\ task[s].position_action.action = "EXIT"
    /\ ~task[s].position_action.forced

\* C31: after an EXIT has been applied the symbol has no record left that is
\* not CLOSED, and the record that was open is closed at the market price with
\* a profit_loss computed on the size the ledger held for it at that moment
C31_ExitClosesRemaining ==
    \A s \in Symbols :
        ExitApplied(s) =>
            /\ NotClosedRows(ledger, s) = {}
            /\ \E i \in RowsOf(ledger, s) :
                  /\ ledger[i].status = "CLOSED"
                  /\ ledger[i].exit_price = Some(task[s].current_price)
                  /\ ledger[i].position_size = task[s].position.size
                  /\ ledger[i].profit_loss
                       = Some(QTimes(task[s].current_price - ledger[i].entry_price,
                                     ledger[i].position_size))

\* a position of 50 shares, halved to 25 by a partial exit in an earlier cycle,
\* is closed at 10.50: its profit_loss is 0.50 * 25
C31_Witness ==
    \E s \in Symbols :
        /\ ExitApplied(s)
        /\ task[s].current_price = 1050
        /\ task[s].position.size = Q(25)
        /\ \E i \in RowsOf(ledger, s) :
              /\ ledger[i].exit_price = Some(1050)
              /\ ledger[i].profit_loss = Some(Q(1250))

C33_MutationsSerialized ==
    [][ledger' # ledger =>
          \E s \in Symbols :
              /\ task'[s] # task[s]
              /\ \A t \in Symbols \ {s} : task'[t] = task[t]
              /\ Len(ledger') >= Len(ledger)
              /\ \A i \in 1..Len(ledger) :
                    /\ ledger'[i].symbol = ledger[i].symbol
                    /\ ledger[i].symbol # s => ledger'[i] = ledger[i]
              /\ \A i \in (Len(ledger) + 1)..Len(ledger') : ledger'[i].symbol = s
              /\ metrics' = _update_metrics(ledger')]_vars

\* two workers of one cycle have both written: one stored a new stop of 9.60 for
\* its position, the other logged a setup, and both records are in the ledger
C33_Witness ==
    \E s \in Symbols, t \in Symbols :
        /\ s # t
        /\ task[s].pc = "done" /\ task[s].position_action.action = "ADJUST_STOPS"
        /\ task[t].pc = "done" /\ task[t].logged = "ok"
        /\ \E i \in RowsOf(ledger, s) :
              ledger[i].status = "OPEN" /\ ledger[i].stop_price = Some(960)
        /\ \E j \in RowsOf(ledger, t) : ledger[j].status = "OPEN"

\* C34: after any sequence of logged trades and position actions a symbol is in
\* PositionManager.open_positions exactly when the ledger has an OPEN record for
\* it, and the snapshot carries the size and the stop_price of that record
C34_SnapshotFollowsLedger ==
    \A s \in Symbols :
        LET tracked == \E k \in DOMAIN open_positions : k = s
        IN  /\ tracked <=> open_trade_rows(ledger, s) # {}
            /\ tracked =>
                  \E i \in open_trade_rows(ledger, s) :
                      /\ open_positions[s].shares = ledger[i].position_size
                      /\ open_positions[s].stop_price = ledger[i].stop_price

----------------------------------------------------------------------------
(* Properties of the account refresh *)

\* C35: after a paper refresh current_balance is starting_balance plus the
\* unrealized and the realized P&L summed over the positions passed in, and
\* buying_power is max(0, current_balance - total_positions_value -
\* cash_reserve), never negative
C35_PaperBalance ==
    [][\A positions \in PositionBooks :
          RefreshPaper(positions) =>
              /\ account'.unrealized_pl
                   = SumOver(positions, DOMAIN positions, "unrealized_pl")
              /\ account'.realized_pl
                   = SumOver(positions, DOMAIN positions, "realized_pl")
              /\ account'.total_positions_value
                   = SumOver(positions, DOMAIN positions, "current_value")
              /\ account'.current_balance
                   = account'.starting_balance + account'.unrealized_pl
                       + account'.realized_pl
              /\ account'.buying_power
                   = Max2(0, account'.current_balance - account'.total_positions_value
                               - account'.cash_reserve)
              /\ account'.buying_power >= 0]_vars

\* a book worth 2900.00 at a loss of 100.00 on a paper account of 3000.00 with a
\* reserve of 300.00: the balance is 2900.00 and the buying power is cut at 0
C35_Witness ==
    /\ account.starting_balance = 300000
    /\ account.cash_reserve = 30000
    /\ account.unrealized_pl = -10000
    /\ account.total_positions_value = 290000
    /\ account.current_balance = 290000
    /\ account.buying_power = 0

----------------------------------------------------------------------------
(* Properties of the action analyze_position applies *)

\* the price is within 10% of the stop distance from the stop:
\* (current_price - stop_price) / |entry_price - stop_price| < 0.1
NearStop(current_price, position) ==
    /\ IsSome(position.stop_price)
    /\ position.entry_price # Val(position.stop_price)
    /\ (current_price - Val(position.stop_price)) * 10
          < Abs(position.entry_price - Val(position.stop_price))

\* the position is down more than 1.5% from its entry
DownMoreThan15(current_price, position) ==
    (current_price - position.entry_price) * 1000 < -15 * position.entry_price

\* C36: when no hard override fires, a parsed HOLD is applied as EXIT if the
\* price is within 10% of the stop distance from the stop or the position is
\* down more than 1.5%, and as HOLD otherwise; any other parsed action is
\* applied as the oracle asked
C36_HoldUpgradedNearStop ==
    (Applied /\ ~applied.forced) =>
        LET parsed == _parse_position_action(applied.response)
        IN  applied.action =
                IF parsed.action # "HOLD" THEN parsed.action
                ELSE IF \/ NearStop(applied.current_price, applied.position)
                        \/ DownMoreThan15(applied.current_price, applied.position)
                THEN "EXIT"
                ELSE "HOLD"

\* the oracle says HOLD at 9.86 on a position entered at 10.00 with its stop at
\* 9.85: down 1.4% only, but 0.01 from the stop, and the position is closed
C36_Witness ==
    /\ Applied
    /\ ~applied.forced
    /\ applied.response = HoldResponse
    /\ applied.current_price = 986
    /\ applied.position.stop_price = Some(985)
    /\ ~DownMoreThan15(applied.current_price, applied.position)
    /\ applied.action = "EXIT"
    /\ NotClosedRows(ledger, applied.symbol) = {}

----------------------------------------------------------------------------
(* Properties of a scan cycle *)

\* the symbol has an OPEN record
HasOpenRecord(s) == has_open_position(get_open_positions(ledger), s)

\* the worker of the symbol has evaluated its position: analyze_position has
\* returned a forced exit or is waiting for the oracle's answer
PositionEvaluated(s) ==
    \/ task[s].pc = "await_position"
    \/ task[s].pc = "done" /\ task[s].position_action.forced

\* C37: in a cycle that reaches opportunity detection every symbol with an OPEN
\* record at the start of the cycle gets a worker, and that worker evaluates the
\* existing position and never goes on to log a new setup
C37_OpenPositionsEvaluated ==
    [][\A s \in Symbols :
          /\ (Idle /\ ~Idle' /\ HasOpenRecord(s)) => task'[s].pc = "start"
          /\ (task[s].pc = "start" /\ HasOpenRecord(s) /\ task'[s] # task[s]) =>
                /\ PositionEvaluated(s)'
                /\ task'[s].pc # "await_setup"
                /\ task'[s].logged = "no"]_vars

----------------------------------------------------------------------------
(* The oracle call: TradingAnalyst._generate_llm_response
   (components/trading_analyst.py), inside analyze_position *)

\* TradingAnalyst.__init__: max_retries=3
max_retries == 3

\* the empty string returned after the last failed attempt
EmptyResponse == [action |-> "", params |-> NoParams]

\* ollama.generate has returned: the response is returned at once
_generate_llm_response_returned(call, response) ==
    [call EXCEPT !.pc = "returned", !.calls = @ + 1, !.response = response]

\* ollama.generate has raised, with one attempt more than range(max_retries) has
_generate_llm_response_raised_once_more(call) ==
    IF call.attempt = max_retries
    THEN [call EXCEPT !.pc = "returned", !.calls = @ + 1, !.failed = TRUE,
                      !.response = EmptyResponse]
    ELSE [call EXCEPT !.attempt = @ + 1, !.calls = @ + 1]

\* ollama.generate has raised: the last attempt re-raises into the outer handler,
\* which returns "", any other attempt goes round the loop
_generate_llm_response_raised(call) ==
    IF call.attempt = max_retries - 1
    THEN [call EXCEPT !.pc = "returned", !.calls = @ + 1, !.failed = TRUE,
                      !.response = EmptyResponse]
    ELSE [call EXCEPT !.attempt = @ + 1, !.calls = @ + 1]

\* analyze_position up to the oracle call: no forced exit, the prompt is built and
\* the first attempt starts
analyze_position_ask(symbol, current_price) ==
    LET open_df  == get_open_positions(ledger)
        position == position_data_of(open_df, symbol)
    IN  /\ llm.pc = "idle"
        /\ applied = NoApplied
        /\ has_open_position(open_df, symbol)
        /\ _should_force_exit(current_price, position).action = "NONE"
        /\ llm' = [pc |-> "attempt", attempt |-> 0, calls |-> 0, failed |-> FALSE,
                   response |-> EmptyResponse, symbol |-> symbol,
                   current_price |-> current_price, position |-> position]
        /\ UNCHANGED <<ledger, metrics, open_positions, account, task, active_trades,
                       sizing, broker, applied>>

ollama_generate_returns(response) ==
    /\ llm.pc = "attempt"
    /\ llm' = _generate_llm_response_returned(llm, response)
    /\ UNCHANGED <<ledger, metrics, open_positions, account, task, active_trades,
                   sizing, broker, applied>>

ollama_generate_raises ==
    /\ llm.pc = "attempt"
    /\ llm' = _generate_llm_response_raised(llm)
    /\ UNCHANGED <<ledger, metrics, open_positions, account, task, active_trades,
                   sizing, broker, applied>>

\* analyze_position after the oracle call: the response is parsed, a HOLD may be
\* upgraded, and the action is handled
analyze_position_answered ==
    LET result == analyze_position(ledger, account, llm.symbol, llm.current_price,
                                   llm.position, llm.response)
    IN  /\ llm.pc = "returned"
        /\ Len(result.df) <= MaxLedger
        /\ ledger' = result.df
        /\ metrics' = IF result.wrote THEN _update_metrics(result.df) ELSE metrics
        /\ applied' = [symbol |-> llm.symbol, current_price |-> llm.current_price,
                       position |-> llm.position, response |-> llm.response,
                       action |-> result.action, forced |-> result.forced,
                       wrote |-> result.wrote, before |-> ledger]
        /\ llm' = [llm EXCEPT !.pc = "handled"]
        /\ UNCHANGED <<open_positions, account, task, active_trades, sizing, broker>>

NextOracle ==
    \/ \E symbol \in Symbols, setup \in PositionSetups : LogSetup(symbol, setup)
    \/ \E symbol \in Symbols, current_price \in PositionPrices :
          analyze_position_ask(symbol, current_price)
    \/ \E response \in Responses : ollama_generate_returns(response)
    \/ ollama_generate_raises
    \/ analyze_position_answered

\* every call of ollama.generate returns or raises
SpecOracle ==
    /\ InitCommon
    /\ [][NextOracle]_vars
    /\ WF_vars(ollama_generate_raises
                 \/ \E response \in Responses : ollama_generate_returns(response))

\* C38: _generate_llm_response makes at most max_retries attempts and always
\* returns; when every attempt has failed it returns the empty response, which
\* parses to HOLD without params, so that the action handled is the one a HOLD
\* answer gets at that price: never PARTIAL_EXIT or ADJUST_STOPS, and EXIT only
\* through the HOLD override
C38_OracleRetryFailsSafe ==
    /\ [](llm.pc # "idle" => llm.calls <= max_retries)
    /\ []((llm.pc \in {"returned", "handled"} /\ llm.failed) =>
             /\ llm.calls = max_retries
             /\ llm.response = EmptyResponse
             /\ _parse_position_action(llm.response) = [action |-> "HOLD", params |-> None])
    /\ []((llm.pc = "handled" /\ llm.failed) =>
             applied.action =
                 IF \/ NearStop(llm.current_price, llm.position)
                    \/ DownMoreThan15(llm.current_price, llm.position)
                 THEN "EXIT" ELSE "HOLD")
    /\ (llm.pc = "attempt" ~> llm.pc = "returned")

\* three attempts have failed at 10.50: the empty response has been handled as a
\* HOLD and the file is as it was
C38_Witness ==
    /\ llm.pc = "handled"
    /\ llm.failed
    /\ llm.calls = max_retries
    /\ llm.current_price = 1050
    /\ applied.action = "HOLD"
    /\ ledger = applied.before
    /\ NotClosedRows(ledger, llm.symbol) # {}

----------------------------------------------------------------------------
(* The account model with broker snapshots that fail part-way
   (components/account_manager.py): the profile carries an equity but its
   buying_power does not convert, so that float(profile['buying_power']) raises
   after current_balance has been assigned, and the handler only logs *)

\* AccountManager.__init__, lines 11-21: the metrics before _initialize_account
uninitialized_account ==
    [starting_balance      |-> default_starting_balance,
     current_balance       |-> 0,
     buying_power          |-> 0,
     cash_reserve          |-> 0,
     total_positions_value |-> 0,
     unrealized_pl         |-> 0,
     realized_pl           |-> 0,
     high_water_mark       |-> 0]

\* _initialize_account, lines 30-34 and 47-48, on such a profile
_initialize_account_live_failing(profile) ==
    [uninitialized_account EXCEPT !.current_balance = profile.equity]

\* update_account_metrics, lines 53-56 and 82-83, on such a profile
update_account_metrics_live_failing(acct, profile) ==
    [acct EXCEPT !.current_balance = profile.equity]

\* get_account_metrics, lines 135-136: the drawdown in percent, times the
\* high-water mark
drawdown_times_high_water_mark(acct) ==
    IF acct.high_water_mark > 0
    THEN (acct.high_water_mark - acct.current_balance) * 100
    ELSE 0

RefreshLiveFailing(profile) ==
    /\ account' = update_account_metrics_live_failing(account, profile)
    /\ UNCHANGED <<ledger, metrics, open_positions, task, active_trades, sizing, broker, applied, llm>>

InitAccountFaults ==
    /\ ledger = <<>>
    /\ metrics = initial_metrics
    /\ open_positions = <<>>
    /\ account \in {initial_account}
                   \cup {_initialize_account_live(profile) : profile \in Profiles}
                   \cup {_initialize_account_live_failing(profile) : profile \in Profiles}
    /\ task = [s \in Symbols |-> IdleTask]
    /\ active_trades = {}
    /\ sizing = NoSizing
    /\ broker = NoBroker
    /\ applied = NoApplied
    /\ llm = NoCall

NextAccountFaults ==
    \/ NextAccount
    \/ \E profile \in Profiles : RefreshLiveFailing(profile)

SpecAccountFaults == InitAccountFaults /\ [][NextAccountFaults]_vars

\* C39: after initialization and after every refresh, one that fails part-way
\* included, high_water_mark >= current_balance, so that the drawdown of
\* get_account_metrics is at least 0, and at most 100 for a balance that is not
\* negative
C39_DrawdownNeverNegative ==
    /\ account.high_water_mark >= account.current_balance
    /\ drawdown_times_high_water_mark(account) >= 0
    /\ account.current_balance >= 0 =>
          drawdown_times_high_water_mark(account) <= 100 * account.high_water_mark

====
